---- MODULE Spec2Model ----
(***************************************************************************)
(* Model of cmd/bosun/expr/tsdbs/graphite/graphite.go: the graphite        *)
(* response decoder (parseGraphiteResponse), the window executor           *)
(* (timeRequest) and the two expression functions Band and Query.          *)
(*                                                                         *)
(* Strings whose characters matter (series names, format templates, tag   *)
(* keys and values) are sequences of one-character strings, so that        *)
(* strings.Split is computed and not assumed.  Datapoint tokens            *)
(* (json.Number) and duration strings are TLA+ strings decoded through     *)
(* tables.  Instants and durations are whole hours; decoded float values   *)
(* are kept in tenths.                                                     *)
(***************************************************************************)
EXTENDS Integers, Sequences, FiniteSets, TLC

VARIABLES
    pc,              \* "idle" | "loop" (inside Band's for loop) | "done"
    op,              \* "none" | "Band" | "Query": the call in progress / returned
    eNow,            \* e.Now(): the evaluation instant of the expr.State
    now,             \* Band's local now (stepped back by p every iteration)
    d, p,            \* Band's parsed duration and period
    num,             \* Band's num argument
    formatArg,       \* the format argument (a string, as a sequence of characters)
    i,               \* Band's loop counter
    req,             \* the graphite.Request of the call: [Start, End]
    err,             \* the err variable of the call
    r,               \* r.Elements, the accumulated ResultSet
    ret,             \* what the call returned: [nilrs, Elements, wrap, err]
    GraphiteQueries, \* e.GraphiteQueries, the audit list
    cacheGets,       \* the cache keys e.Cache.Get was invoked with, in order
    audit0,          \* Len(GraphiteQueries) when the current call started
    durArgs,         \* the two duration strings the call was made with
    lastAnswer,      \* what get-or-compute answered for the latest window: its
                     \* error and the number of series of its response
    decoded,         \* history: for every (TagSet, timestamp) decoded in a window of
                     \* the current call, the value of the latest such window
    redecoded,       \* history: some window of the current call decoded a point
                     \* that an earlier window had decoded with another value
    decIn, decOut    \* decoder harness: input (response, format) and output

vars == <<pc, op, eNow, now, d, p, num, formatArg, i, req, err, r, ret,
          GraphiteQueries, cacheGets, audit0, durArgs, lastAnswer, decoded,
          redecoded, decIn, decOut>>

-----------------------------------------------------------------------------
(* Bounds of the model *)

\* a further call is made only while the audit list is at most this long
MaxPriorAudit == 1
\* series per RawResponse
MaxSeries == 2
\* largest num of a Band call (the calls around the bounds of the num check apart)
MaxWindows == 3

\* the bounds of Band's num check
MinNum == 1
MaxNum == 100

-----------------------------------------------------------------------------
(* Strings *)

Dot == "."

\* strings.Split(s, "."): the segments of s between the dots; Split("") = [""]
RECURSIVE SplitAcc(_, _, _, _)
SplitAcc(s, k, cur, out) ==
    IF k > Len(s) THEN Append(out, cur)
    ELSE IF s[k] = Dot THEN SplitAcc(s, k + 1, <<>>, Append(out, cur))
    ELSE SplitAcc(s, k + 1, Append(cur, s[k]), out)

Split(s) == SplitAcc(s, 1, <<>>, <<>>)

-----------------------------------------------------------------------------
(* opentsdb.TagSet: a map from tag key to tag value (both strings) *)

EmptyTags == [k \in {} |-> <<>>]

\* tags[key] = value on a Go map
SetTag(tags, key, value) ==
    [k \in DOMAIN tags \cup {key} |-> IF k = key THEN value ELSE tags[k]]

\* the characters of the model's strings, in byte order; "!" stands for the
\* characters a tag may not contain
CharOrder == <<"!", ",", ".", "=", "a", "b", "c", "e", "h", "k", "m", "y">>

Rank(c) == CHOOSE n \in 1..Len(CharOrder) : CharOrder[n] = c

ValidTSDBString(s) ==
    /\ Len(s) > 0
    /\ \A k \in 1..Len(s) : s[k] \notin {"!", ",", "="}

\* TagSet.Valid: every key and every value passes the validity predicate
Valid(tags) ==
    \A k \in DOMAIN tags : ValidTSDBString(k) /\ ValidTSDBString(tags[k])

\* TagSet.Equal: the same key -> value pairs
TagEqual(a, b) ==
    /\ DOMAIN a = DOMAIN b
    /\ \A k \in DOMAIN a : a[k] = b[k]

RECURSIVE LexLess(_, _)
LexLess(s, t) ==
    IF Len(t) = 0 THEN FALSE
    ELSE IF Len(s) = 0 THEN TRUE
    ELSE IF s[1] # t[1] THEN Rank(s[1]) < Rank(t[1])
    ELSE LexLess(Tail(s), Tail(t))

RECURSIVE SortKeys(_)
SortKeys(K) ==
    IF K = {} THEN <<>>
    ELSE LET m == CHOOSE x \in K : \A y \in K \ {x} : LexLess(x, y)
         IN  <<m>> \o SortKeys(K \ {m})

RECURSIVE JoinTags(_, _, _)
JoinTags(tags, keys, k) ==
    IF k > Len(keys) THEN <<>>
    ELSE (IF k > 1 THEN <<",">> ELSE <<>>)
         \o keys[k] \o <<"=">> \o tags[keys[k]]
         \o JoinTags(tags, keys, k + 1)

\* TagSet.String: the canonical form "k1=v1,k2=v2" with the keys sorted
TagString(tags) == JoinTags(tags, SortKeys(DOMAIN tags), 1)

-----------------------------------------------------------------------------
(* json.Number tokens of a datapoint *)

IsNoneNever(tok) == FALSE

\* len(dp[0].String()) == 0: the token of a JSON null
IsNone(tok) == tok = ""

\* json.Number.Float64: ok and value (in tenths)
Float64Ok(tok) == tok \in {"1", "2", "1.5"}
Float64(tok) == CASE tok = "1" -> 10 [] tok = "2" -> 20 [] tok = "1.5" -> 15

\* json.Number.Int64: ok and value
Int64Ok(tok) == tok \in {"1", "2"}
Int64(tok) == CASE tok = "1" -> 1 [] tok = "2" -> 2

\* expr.Series: a map from timestamp to value
EmptySeries == [t \in {} |-> 0]

SetPoint(series, t, v) ==
    [x \in DOMAIN series \cup {t} |-> IF x = t THEN v ELSE series[x]]

-----------------------------------------------------------------------------
(* parseGraphiteResponse *)

NoErr == "nil"
ErrEmpty == "ParseError: empty response"
ErrMismatch == "ParseError: target does not match format"
ErrInvalidTag == "ParseError: invalid tag"
ErrDuplicate == "ParseError: more than 1 series identified by tagset"
ErrFields == "ParseError: datapoint has != 2 fields"
ErrFloat == "ParseError: value cannot be decoded to Float64"
ErrInt == "ParseError: timestamp cannot be decoded to Int64"
ParseErrors ==
    {ErrEmpty, ErrMismatch, ErrInvalidTag, ErrDuplicate, ErrFields, ErrFloat, ErrInt}

ParseFail(e) == [err |-> e, results |-> <<>>]

SingleKeyWhenEmptyList(formatTags) == Len(formatTags) = 0

\* len(formatTags) == 1 && formatTags[0] == ""
SingleKey(formatTags) == Len(formatTags) = 1 /\ formatTags[1] = <<>>

KeyTag == <<"k", "e", "y">>

\* for i, key := range formatTags { if len(key) > 0 { tags[key] = nodes[i] } }
RECURSIVE PositionalTags(_, _, _, _)
PositionalTags(formatTags, nodes, k, tags) ==
    IF k > Len(formatTags) THEN tags
    ELSE PositionalTags(formatTags, nodes, k + 1,
             IF Len(formatTags[k]) > 0
             THEN SetTag(tags, formatTags[k], nodes[k])
             ELSE tags)

\* the tag set of one series (the length check of the caller has passed)
BuildTags(target, formatTags) ==
    IF SingleKey(formatTags)
    THEN SetTag(EmptyTags, KeyTag, target)
    ELSE PositionalTags(formatTags, Split(target), 1, EmptyTags)

\* the datapoint loop: [err, dps]
RECURSIVE ParseDatapoints(_, _, _)
ParseDatapoints(datapoints, k, dps) ==
    IF k > Len(datapoints) THEN [err |-> NoErr, dps |-> dps]
    ELSE LET dp == datapoints[k] IN
         IF Len(dp) # 2 THEN [err |-> ErrFields, dps |-> EmptySeries]
         ELSE IF IsNone(dp[1]) THEN ParseDatapoints(datapoints, k + 1, dps)
         ELSE IF ~Float64Ok(dp[1]) THEN [err |-> ErrFloat, dps |-> EmptySeries]
         ELSE IF ~Int64Ok(dp[2]) THEN [err |-> ErrInt, dps |-> EmptySeries]
         ELSE ParseDatapoints(datapoints, k + 1,
                              SetPoint(dps, Int64(dp[2]), Float64(dp[1])))

TooFewNodesOrAsMany(nodes, formatTags) == Len(nodes) <= Len(formatTags)

\* len(nodes) < len(formatTags)
TooFewNodes(nodes, formatTags) == Len(nodes) < Len(formatTags)

AlreadySeenNever(seen, ts) == FALSE

\* seen[ts]
AlreadySeen(seen, ts) == ts \in seen

AppendElementInFront(results, dps, tags) ==
    <<[Value |-> dps, Group |-> tags]>> \o results

\* results = append(results, &expr.Element{Value: dps, Group: tags})
AppendElement(results, dps, tags) ==
    Append(results, [Value |-> dps, Group |-> tags])

\* the loop over the series of the response: [err, results]
RECURSIVE ParseSeries(_, _, _, _, _)
ParseSeries(s, formatTags, j, seen, results) ==
    IF j > Len(s) THEN [err |-> NoErr, results |-> results]
    ELSE LET res == s[j] IN
         IF ~SingleKey(formatTags) /\ TooFewNodes(Split(res.Target), formatTags)
         THEN ParseFail(ErrMismatch)
         ELSE LET tags == BuildTags(res.Target, formatTags)
                  ts == TagString(tags)
                  dps == ParseDatapoints(res.Datapoints, 1, EmptySeries)
              IN  IF ~Valid(tags) THEN ParseFail(ErrInvalidTag)
                  ELSE IF AlreadySeen(seen, ts) THEN ParseFail(ErrDuplicate)
                  ELSE IF dps.err # NoErr THEN ParseFail(dps.err)
                  ELSE ParseSeries(s, formatTags, j + 1, seen \cup {ts},
                           AppendElement(results, dps.dps, tags))

parseGraphiteResponseNoEmptyCheck(s, formatTags) ==
    ParseSeries(s, formatTags, 1, {}, <<>>)

parseGraphiteResponse(s, formatTags) ==
    IF Len(s) = 0 THEN ParseFail(ErrEmpty)
    ELSE ParseSeries(s, formatTags, 1, {}, <<>>)

-----------------------------------------------------------------------------
(* Inputs *)

\* all sequences over S of length 0..n
SeqsUpTo(S, n) == UNION {[1..k -> S] : k \in 0..n}

\* opentsdb.ParseDuration on the duration strings of the model (hours)
ParseDurationOk(s) == s \in {"1h", "2h"}
ParseDuration(s) == CASE s = "1h" -> 1 [] s = "2h" -> 2
ErrDurationNone == "nil"
ErrDuration == "invalid duration"

TargetAB == <<"a", ".", "b">>
TargetAC == <<"a", ".", "c">>
TargetBAC == <<"b", ".", "a", ".", "c">>
TargetBad == <<"a", ".", "!">>

\* the format arguments of Band and Query calls: "" and "h"
CallFormats == {<<>>, <<"h">>}

\* the series the backend answers Band and Query calls with
CallSeries ==
    { [Target |-> TargetAB, Datapoints |-> << <<"1", "1">> >>],
      [Target |-> TargetAB, Datapoints |-> << <<"2", "1">>, <<"1.5", "2">> >>],
      [Target |-> TargetAC, Datapoints |-> << <<"", "x">>, <<"1", "2">> >>] }

\* a response of one series whose name is not a valid tag value
BadNameResponse ==
    << [Target |-> TargetBad, Datapoints |-> << <<"1", "1">> >>] >>

ErrTransport == "graphite: transport error"

\* what e.Cache.Get(key, getFn) answers: a failure, or a graphite.Response
Answers ==
    {[err |-> ErrTransport, resp |-> <<>>]}
    \cup {[err |-> NoErr, resp |-> s] : s \in SeqsUpTo(CallSeries, MaxSeries)}
    \cup {[err |-> NoErr, resp |-> BadNameResponse]}

\* the formats of the decoder harness: "", "h", "h.m", ".m", "h..", "h.h"
DecodeFormats ==
    {<<>>, <<"h">>, <<"h", ".", "m">>, <<".", "m">>, <<"h", ".", ".">>,
     <<"h", ".", "h">>}

DecodePoints ==
    { << <<"2", "1">>, <<"1.5", "2">> >>,
      << <<"", "x">>, <<"1", "2">> >>,
      << <<"1", "1">>, <<"x", "2">> >>,
      << <<"1", "1.5">> >>,
      << <<"1", "1">>, <<"1">> >>,
      << <<"1", "1">>, <<"2", "1">> >>,
      << >> }

DecodeSeries ==
    {[Target |-> tg, Datapoints |-> dps] :
        tg \in {TargetAB, TargetAC, TargetBAC, TargetBad}, dps \in DecodePoints}

DecodeResponses == SeqsUpTo(DecodeSeries, MaxSeries)

-----------------------------------------------------------------------------
(* timeRequest *)

\* req.CacheKey(): a deterministic fingerprint of the request's fields
CacheKey(rq) == <<"q", rq.Start, rq.End>>

\* A Request holds its instants as pointers (Start: &st, End: &et), and the
\* copy the audit list takes of it holds the same pointers. An entry of the
\* audit list is kept as the instants read through them, with EndVar naming
\* the variable End points at: "now", the variable now of the Band call that is
\* running, or "et", a variable that is not written after the entry was made.
\* The variable st is declared anew for every Request, so Start needs no name.
AuditEntry(rq, endVar) ==
    [Start |-> rq.Start, End |-> rq.End, EndVar |-> endVar]

RecordRequestNot(queries, rq, endVar) == queries

\* e.GraphiteQueries = append(e.GraphiteQueries, *req)
RecordRequest(queries, rq, endVar) == Append(queries, AuditEntry(rq, endVar))

\* now = now.Add(time.Duration(-p)) writes the variable that the End of every
\* Request of the running Band call points at (req.End = &now)
WriteNow(queries, t) ==
    [k \in 1..Len(queries) |->
        IF queries[k].EndVar = "now"
        THEN [queries[k] EXCEPT !.End = t]
        ELSE queries[k]]

\* now := e.Now() declares the variable anew for every Band call: the Requests
\* of the calls before point at variables that are not written any more
Detach(queries) ==
    [k \in 1..Len(queries) |-> [queries[k] EXCEPT !.EndVar = "et"]]

-----------------------------------------------------------------------------
(* Band *)

ErrNum == "expr: Band: num out of bounds"

\* num < 1 || num > 100
NumOutOfBounds(n) == n < MinNum \/ n > MaxNum

StepBackForward(t, period) == t + period
StepBackTwice(t, period) == t - 2 * period

\* now = now.Add(time.Duration(-p))
StepBack(t, period) == t - period

\* st := now.Add(time.Duration(-d))
WindowStart(end, duration) == end - duration

FindGroupNever(elements, g, j) == -1

FindGroupFirstOnly(elements, g, j) ==
    IF Len(elements) >= 1 /\ TagEqual(g, elements[1].Group) THEN 0 ELSE -1

\* the position of the first element whose Group equals g, or -1 (0-based, as
\* updateKey in the source)
RECURSIVE FindGroup(_, _, _)
FindGroup(elements, g, j) ==
    IF j > Len(elements) THEN -1
    ELSE IF TagEqual(g, elements[j].Group) THEN j - 1
    ELSE FindGroup(elements, g, j + 1)

WriteSeriesKeepFirst(existing, incoming) ==
    [t \in DOMAIN existing \cup DOMAIN incoming |->
        IF t \in DOMAIN existing THEN existing[t] ELSE incoming[t]]

\* for k, v := range result.Value { r.Elements[updateKey].Value[k] = v }
WriteSeries(existing, incoming) ==
    [t \in DOMAIN existing \cup DOMAIN incoming |->
        IF t \in DOMAIN incoming THEN incoming[t] ELSE existing[t]]

MergeResultInFront(elements, result) ==
    LET found == FindGroup(elements, result.Group, 1)
        appended == IF found = -1 THEN <<result>> \o elements ELSE elements
        updateKey == IF found = -1 THEN 0 ELSE found
    IN  [appended EXCEPT ![updateKey + 1].Value =
            WriteSeries(appended[updateKey + 1].Value, result.Value)]

\* the body of "for _, result := range results"
MergeResult(elements, result) ==
    LET found == FindGroup(elements, result.Group, 1)
        appended == IF found = -1 THEN Append(elements, result) ELSE elements
        updateKey == IF found = -1 THEN Len(appended) - 1 ELSE found
    IN  [appended EXCEPT ![updateKey + 1].Value =
            WriteSeries(appended[updateKey + 1].Value, result.Value)]

RECURSIVE MergeResults(_, _, _)
MergeResults(elements, results, k) ==
    IF k > Len(results) THEN elements
    ELSE MergeResults(MergeResult(elements, results[k]), results, k + 1)

\* lines 138-160: what r.Elements is after window i has been decoded
Accumulate(elements, results, window) ==
    IF window = 0 THEN results ELSE MergeResults(elements, results, 1)

BandReturnPartial(e, elements) ==
    IF e # NoErr
    THEN [nilrs |-> FALSE, Elements |-> elements, wrap |-> "graphiteBand", err |-> e]
    ELSE [nilrs |-> FALSE, Elements |-> elements, wrap |-> "", err |-> NoErr]

\* lines 163-166
BandReturn(e, elements) ==
    IF e # NoErr
    THEN [nilrs |-> TRUE, Elements |-> <<>>, wrap |-> "graphiteBand", err |-> e]
    ELSE [nilrs |-> FALSE, Elements |-> elements, wrap |-> "", err |-> NoErr]

NoReturn == [nilrs |-> TRUE, Elements |-> <<>>, wrap |-> "", err |-> NoErr]

\* the history of decoded points after one more window has been decoded: per
\* (TagSet, timestamp) the value of the latest window that decoded it
RecordDecoded(hist, results) ==
    LET pts == UNION {{<<k, t>> : t \in DOMAIN results[k].Value} :
                         k \in 1..Len(results)}
        kept == {h \in hist :
                    \A x \in pts : ~(h.g = results[x[1]].Group /\ h.t = x[2])}
    IN  kept \cup {[g |-> results[x[1]].Group, t |-> x[2],
                    v |-> results[x[1]].Value[x[2]]] : x \in pts}

\* a window decodes a point that an earlier window decoded with another value
Redecoded(hist, results) ==
    \E k \in 1..Len(results) : \E t \in DOMAIN results[k].Value :
        \E h \in hist :
            h.g = results[k].Group /\ h.t = t /\ h.v # results[k].Value[t]

-----------------------------------------------------------------------------
(* The state machine *)

\* no request built yet, no answer received yet
NoRequest == [Start |-> 0, End |-> 0]
NoAnswer == [err |-> "none", n |-> 0]

\* the instant e.Now() answers
EvalInstant == 10

Init ==
    /\ pc = "idle"
    /\ op = "none"
    /\ eNow = EvalInstant
    /\ now = EvalInstant
    /\ d = 0
    /\ p = 0
    /\ num = 0
    /\ formatArg = <<>>
    /\ i = 0
    /\ req = NoRequest
    /\ err = NoErr
    /\ r = <<>>
    /\ ret = NoReturn
    /\ GraphiteQueries = <<>>
    /\ cacheGets = <<>>
    /\ audit0 = 0
    /\ lastAnswer = NoAnswer
    /\ durArgs = <<"", "">>
    /\ decoded = {}
    /\ redecoded = FALSE
    /\ decIn = [resp |-> <<>>, format |-> <<>>]
    /\ decOut = [state |-> "none", err |-> NoErr, results |-> <<>>,
                 keys |-> {}]

\* what get-or-compute answered: err, and the size of val.(graphite.Response)
AnswerOf(answer) == [err |-> answer.err, n |-> Len(answer.resp)]

\* a Band or Query call may start: none is running
CanCall ==
    /\ pc = "idle"
    /\ decOut.state = "none"

\* Band, lines 98-121 (and 122, 163-166 when the loop body never runs):
\* everything before the first iteration of the loop
BandStart(duration, period, format, n) ==
    /\ op' = "Band"
    /\ durArgs' = <<duration, period>>
    /\ audit0' = Len(GraphiteQueries)
    /\ num' = n
    /\ formatArg' = format
    /\ i' = 0
    /\ r' = <<>>
    /\ decoded' = {}
    /\ redecoded' = FALSE
    /\ lastAnswer' = NoAnswer
    /\ IF ~ParseDurationOk(duration) \/ ~ParseDurationOk(period)
       THEN /\ err' = ErrDuration
            /\ pc' = "done"
            /\ ret' = BandReturn(ErrDuration, <<>>)
            /\ d' = 0 /\ p' = 0 /\ now' = eNow /\ req' = NoRequest
       ELSE /\ d' = ParseDuration(duration)
            /\ p' = ParseDuration(period)
            /\ err' = IF NumOutOfBounds(n) THEN ErrNum ELSE NoErr
            /\ now' = eNow
            /\ req' = [Start |-> WindowStart(eNow, d'), End |-> eNow]
            /\ IF 0 < n
               THEN pc' = "loop" /\ ret' = NoReturn
               ELSE pc' = "done" /\ ret' = BandReturn(err', <<>>)
    /\ GraphiteQueries' = Detach(GraphiteQueries)
    /\ UNCHANGED <<eNow, cacheGets, decIn, decOut>>

\* Band, lines 122-161 (and 163-166 when the call ends): one iteration of the
\* loop, answered by the cache with `answer`
BandWindow(answer) ==
    /\ pc = "loop"
    /\ now' = StepBack(now, p)
    /\ req' = [Start |-> WindowStart(now', d), End |-> now']
    /\ GraphiteQueries' =
          RecordRequest(WriteNow(GraphiteQueries, now'), req', "now")
    /\ cacheGets' = Append(cacheGets, CacheKey(req'))
    /\ lastAnswer' = AnswerOf(answer)
    /\ LET parsed == parseGraphiteResponse(answer.resp, Split(formatArg)) IN
       IF answer.err # NoErr
       THEN /\ err' = answer.err
            /\ pc' = "done"
            /\ ret' = BandReturn(err', r)
            /\ r' = ret'.Elements
            /\ UNCHANGED <<i, decoded, redecoded>>
       ELSE IF parsed.err # NoErr
       THEN /\ err' = parsed.err
            /\ pc' = "done"
            /\ ret' = BandReturn(err', r)
            /\ r' = ret'.Elements
            /\ UNCHANGED <<i, decoded, redecoded>>
       ELSE /\ err' = NoErr
            /\ r' = Accumulate(r, parsed.results, i)
            /\ decoded' = RecordDecoded(decoded, parsed.results)
            /\ redecoded' = (redecoded \/ Redecoded(decoded, parsed.results))
            /\ i' = i + 1
            /\ IF i' < num
               THEN pc' = "loop" /\ ret' = NoReturn
               ELSE pc' = "done" /\ ret' = BandReturn(NoErr, r')
    /\ UNCHANGED <<op, eNow, d, p, num, formatArg, audit0, durArgs, decIn,
                   decOut>>

QueryWindowToNow(t, sd, ed) == [Start |-> t - sd, End |-> t]

\* st := e.Now().Add(-sd); et := e.Now().Add(-ed): the request of Query
QueryWindow(t, sd, ed) == [Start |-> t - sd, End |-> t - ed]

\* Query, lines 170-202: the whole call, answered by the cache with `answer`
Query(sduration, eduration, format, answer) ==
    /\ CanCall
    /\ op' = "Query"
    /\ durArgs' = <<sduration, eduration>>
    /\ audit0' = Len(GraphiteQueries)
    /\ formatArg' = format
    /\ pc' = "done"
    /\ IF ~ParseDurationOk(sduration)
          \/ (eduration # "" /\ ~ParseDurationOk(eduration))
       THEN /\ err' = ErrDuration
            /\ ret' = [nilrs |-> TRUE, Elements |-> <<>>, wrap |-> "",
                       err |-> ErrDuration]
            /\ r' = <<>>
            /\ decoded' = {}
            /\ lastAnswer' = NoAnswer
            /\ req' = NoRequest
            /\ UNCHANGED <<GraphiteQueries, cacheGets>>
       ELSE LET sd == ParseDuration(sduration)
                ed == IF eduration # "" THEN ParseDuration(eduration) ELSE 0
                parsed == parseGraphiteResponse(answer.resp, Split(format))
                failed == IF answer.err # NoErr THEN answer.err ELSE parsed.err
            IN  /\ req' = QueryWindow(eNow, sd, ed)
                /\ GraphiteQueries' =
                      RecordRequest(GraphiteQueries, req', "et")
                /\ cacheGets' = Append(cacheGets, CacheKey(req'))
                /\ lastAnswer' = AnswerOf(answer)
                /\ err' = failed
                /\ IF failed # NoErr
                   THEN /\ r' = <<>>
                        /\ decoded' = {}
                        /\ ret' = [nilrs |-> TRUE, Elements |-> <<>>,
                                   wrap |-> "", err |-> failed]
                   ELSE /\ r' = parsed.results
                        /\ decoded' = RecordDecoded({}, parsed.results)
                        /\ ret' = [nilrs |-> FALSE, Elements |-> r',
                                   wrap |-> "", err |-> NoErr]
    /\ now' = eNow /\ d' = 0 /\ p' = 0 /\ num' = 0 /\ i' = 0
    /\ redecoded' = FALSE
    /\ UNCHANGED <<eNow, decIn, decOut>>

\* the caller takes what the call returned; the locals of the call are gone.
\* The expr.State, with its audit list, lives on for the next call.
Return ==
    /\ pc = "done"
    /\ Len(GraphiteQueries) <= MaxPriorAudit
    /\ pc' = "idle"
    /\ op' = "none"
    /\ now' = eNow /\ d' = 0 /\ p' = 0 /\ num' = 0 /\ i' = 0
    /\ formatArg' = <<>>
    /\ req' = NoRequest
    /\ err' = NoErr
    /\ r' = <<>>
    /\ ret' = NoReturn
    /\ lastAnswer' = NoAnswer
    /\ durArgs' = <<"", "">>
    /\ decoded' = {}
    /\ redecoded' = FALSE
    /\ audit0' = Len(GraphiteQueries)
    /\ GraphiteQueries' = Detach(GraphiteQueries)
    /\ UNCHANGED <<eNow, cacheGets, decIn, decOut>>

\* the num arguments of the Band calls
BandNums == -1..MaxWindows

BandCall(duration, period, format, n) ==
    CanCall /\ BandStart(duration, period, format, n)

\* the (duration, period) arguments of the Band calls and the
\* (sduration, eduration) arguments of the Query calls
BandDurations == {<<"1h", "1h">>, <<"1h", "2h">>, <<"2h", "1h">>, <<"bad", "1h">>, <<"1h", "bad">>}
QueryDurations == {<<"1h", "">>, <<"2h", "1h">>, <<"bad", "">>, <<"1h", "bad">>}

Next ==
    \/ \E dp \in BandDurations, f \in CallFormats, n \in BandNums :
          BandCall(dp[1], dp[2], f, n)
    \/ \E a \in Answers : BandWindow(a)
    \/ \E se \in QueryDurations, f \in CallFormats, a \in Answers :
          Query(se[1], se[2], f, a)
    \/ Return

Spec == Init /\ [][Next]_vars

-----------------------------------------------------------------------------
(* The decoder on its own: parseGraphiteResponse applied to one response, and
   graphiteTagQuery to its format *)

\* graphiteTagQuery, lines 204-213: the set of the non-empty segments of the
\* format argument
graphiteTagQuery(format) ==
    {Split(format)[k] : k \in {n \in 1..Len(Split(format)) :
                                  Split(format)[n] # <<>>}}

InitDecode ==
    /\ pc = "idle"
    /\ op = "none"
    /\ eNow = EvalInstant
    /\ now = EvalInstant
    /\ d = 0
    /\ p = 0
    /\ num = 0
    /\ formatArg = <<>>
    /\ i = 0
    /\ req = NoRequest
    /\ err = NoErr
    /\ r = <<>>
    /\ ret = NoReturn
    /\ GraphiteQueries = <<>>
    /\ cacheGets = <<>>
    /\ audit0 = 0
    /\ lastAnswer = NoAnswer
    /\ durArgs = <<"", "">>
    /\ decoded = {}
    /\ redecoded = FALSE
    /\ decIn \in [resp : DecodeResponses, format : DecodeFormats]
    /\ decOut = [state |-> "pending", err |-> NoErr, results |-> <<>>,
                 keys |-> {}]

Decode ==
    /\ decOut.state = "pending"
    /\ LET parsed == parseGraphiteResponse(decIn.resp, Split(decIn.format)) IN
       decOut' = [state |-> "returned", err |-> parsed.err,
                  results |-> parsed.results,
                  keys |-> graphiteTagQuery(decIn.format)]
    /\ UNCHANGED <<pc, op, eNow, now, d, p, num, formatArg, i, req, err, r, ret,
                   GraphiteQueries, cacheGets, audit0, durArgs, lastAnswer,
                   decoded, redecoded, decIn>>

NextDecode == Decode

SpecDecode == InitDecode /\ [][NextDecode]_vars

-----------------------------------------------------------------------------
(* One Band call with num at and around the bounds of the num check *)

BoundaryNums == {MinNum - 1, MaxNum, MaxNum + 1}

BandBoundaryCall(n) ==
    /\ pc = "idle"
    /\ BandStart("1h", "1h", <<"h">>, n)

NextBoundary ==
    \/ \E n \in BoundaryNums : BandBoundaryCall(n)
    \/ \E a \in Answers : BandWindow(a)

SpecBoundary == Init /\ [][NextBoundary]_vars

-----------------------------------------------------------------------------
(* Properties of Band *)

\* the windows the current call has requested, as get-or-compute was given
\* them: the instants of the cache keys
Issued ==
    [k \in 1..(Len(cacheGets) - audit0) |->
        [Start |-> cacheGets[audit0 + k][2], End |-> cacheGets[audit0 + k][3]]]

BandSucceeded == op = "Band" /\ pc = "done" /\ ret.err = NoErr

\* C1: a Band call whose num lies outside [1,100] issues no query (the audit
\* list and the cache are left alone) and returns a failure with no ResultSet
C1_OutOfBoundsRejected ==
    (op = "Band" /\ (num < 1 \/ num > 100)) =>
        /\ Len(GraphiteQueries) = audit0
        /\ Len(cacheGets) = audit0
        /\ pc = "done" => (ret.nilrs /\ ret.err # NoErr)

\* C2: a successful Band call with num in [1,100] has queried exactly num
\* windows, the k-th (k = 1..num) ending at now - k*P and starting D before its
\* end, so that the end instants strictly decrease by P; with num = 3, D = 1h,
\* P = 1h they are [now-2h,now-1h], [now-3h,now-2h], [now-4h,now-3h]
C2_WindowsInOrder ==
    /\ (BandSucceeded /\ num \in 1..100) =>
        /\ Len(Issued) = num
        /\ \A k \in 1..num :
            /\ Issued[k].End = eNow - k * p
            /\ Issued[k].Start = Issued[k].End - d
            /\ k > 1 => /\ Issued[k].End = Issued[k - 1].End - p
                        /\ Issued[k].End < Issued[k - 1].End
    /\ (BandSucceeded /\ num = 3 /\ d = 1 /\ p = 1) =>
        Issued = << [Start |-> eNow - 2, End |-> eNow - 1],
                    [Start |-> eNow - 3, End |-> eNow - 2],
                    [Start |-> eNow - 4, End |-> eNow - 3] >>

C2_Witness == BandSucceeded /\ num = 3 /\ d = 1 /\ p = 1 /\ Len(Issued) = 3

\* C3 as claimed: the first window of a Band call ends at the evaluation
\* instant now and starts at now - D
C3_FirstWindowEndsNow ==
    (op = "Band" /\ Len(Issued) >= 1) =>
        /\ Issued[1].End = eNow
        /\ Issued[1].Start = eNow - d

\* C3 as amended: the first window of a Band call ends at now - P and starts at
\* now - P - D; each later window ends P before the previous window's end and
\* starts D before its own end
C3_FirstWindowEndsPeriodAgo ==
    (op = "Band" /\ Len(Issued) >= 1) =>
        /\ Issued[1].End = eNow - p
        /\ Issued[1].Start = eNow - p - d
        /\ \A k \in 2..Len(Issued) :
            /\ Issued[k].End = Issued[k - 1].End - p
            /\ Issued[k].Start = Issued[k].End - d

C3_Witness ==
    op = "Band" /\ pc = "loop" /\ Len(Issued) = 2 /\ d = 1 /\ p = 2

\* the (timestamp, value) pairs of a Series
Points(series) == {<<t, series[t]>> : t \in DOMAIN series}

\* C4: while a Band call merges and when it has succeeded, the Series of each
\* tag-set holds exactly the timestamps decoded for that tag-set in any window,
\* each with the value of the latest window that decoded it
C4_MergeIsUnionLaterWins ==
    (op = "Band" /\ (pc = "loop" \/ BandSucceeded)) =>
        LET elements == IF pc = "done" THEN ret.Elements ELSE r IN
        /\ \A k \in 1..Len(elements) :
              Points(elements[k].Value) =
                  {<<h.t, h.v>> : h \in {x \in decoded : x.g = elements[k].Group}}
        /\ \A h \in decoded : \E k \in 1..Len(elements) : elements[k].Group = h.g

C4_Witness ==
    /\ BandSucceeded /\ i >= 2 /\ redecoded
    /\ \E k \in 1..Len(ret.Elements) : Cardinality(DOMAIN ret.Elements[k].Value) = 2

\* C5: when a window of a Band call fails (the query or the decode, at window 0
\* or later), the call is over with that failure and no ResultSet, and no
\* window after the failed one has been issued; a ResultSet is returned only
\* with no failure, after all num windows
C5_FailureAbortsBand ==
    /\ (op = "Band" /\ lastAnswer.err # "none"
            /\ (lastAnswer.err # NoErr \/ err # NoErr)) =>
        /\ pc = "done"
        /\ err \in ParseErrors \cup {ErrTransport}
        /\ ret.nilrs /\ ret.Elements = <<>> /\ ret.err = err
        /\ Len(Issued) = i + 1
    /\ (op = "Band" /\ pc = "done") =>
        /\ ret.err # NoErr => (ret.nilrs /\ ret.Elements = <<>>)
        /\ ~ret.nilrs => (ret.err = NoErr /\ i = num /\ Len(Issued) = num)

C5_Witness ==
    op = "Band" /\ pc = "done" /\ i >= 1 /\ err \in ParseErrors /\ ret.nilrs

-----------------------------------------------------------------------------
(* Properties of parseGraphiteResponse, stated on the decoder's input *)

Returned == decOut.state = "returned"

DecFormat == Split(decIn.format)

\* the series of the input have a tag set under the format: single-key mode,
\* or a name with at least as many segments as the format
HasTags(j) ==
    SingleKey(DecFormat) \/ Len(Split(decIn.resp[j].Target)) >= Len(DecFormat)

TagsOf(j) == BuildTags(decIn.resp[j].Target, DecFormat)

\* a datapoint the decoder accepts: two tokens, and either no value, or a
\* float value with an integer timestamp
WellFormed(dp) ==
    Len(dp) = 2 /\ (dp[1] = "" \/ (Float64Ok(dp[1]) /\ Int64Ok(dp[2])))

AllWellFormed(j) ==
    \A n \in 1..Len(decIn.resp[j].Datapoints) :
        WellFormed(decIn.resp[j].Datapoints[n])

\* series j on its own gives no decode error
SeriesClean(j) == HasTags(j) /\ Valid(TagsOf(j)) /\ AllWellFormed(j)

\* series j and k both have a tag set, and it is the same
SameTags(j, k) == HasTags(j) /\ HasTags(k) /\ TagEqual(TagsOf(j), TagsOf(k))

HasDuplicate ==
    \E k \in 1..Len(decIn.resp) : \E j \in 1..(k - 1) : SameTags(j, k)

\* the position of the first series that repeats the tag set of an earlier one
FirstDuplicate ==
    CHOOSE k \in 1..Len(decIn.resp) :
        /\ \E j \in 1..(k - 1) : SameTags(j, k)
        /\ \A m \in 1..(k - 1) : ~\E j \in 1..(m - 1) : SameTags(j, m)

\* the tag sets of the input are all there, valid and pairwise distinct
TagsClean ==
    /\ Len(decIn.resp) >= 1
    /\ \A j \in 1..Len(decIn.resp) : HasTags(j) /\ Valid(TagsOf(j))
    /\ ~HasDuplicate

\* the Series a list of well-formed datapoints stands for: the datapoints with
\* a value, keyed by timestamp, the last one of a timestamp giving its value
LivePoints(dps) == {n \in 1..Len(dps) : dps[n][1] # ""}

SeriesOfPoints(dps) ==
    [t \in {Int64(dps[n][2]) : n \in LivePoints(dps)} |->
        LET last == CHOOSE n \in LivePoints(dps) :
                        /\ Int64(dps[n][2]) = t
                        /\ \A m \in LivePoints(dps) : Int64(dps[m][2]) = t => m <= n
        IN  Float64(dps[last][1])]

\* C6 as claimed: a response with two series of the same TagSet fails with the
\* duplicate-identity error and gives no Elements
C6_DuplicateError ==
    (Returned /\ HasDuplicate) =>
        (decOut.err = ErrDuplicate /\ decOut.results = <<>>)

\* C6 as amended: a response with two series of the same TagSet fails and gives
\* no Elements; the failure is the duplicate-identity error exactly when every
\* series before the first repeated one is free of decode errors, and otherwise
\* it is the decode error of an earlier series
C6_DuplicateFails ==
    (Returned /\ HasDuplicate) =>
        /\ decOut.err # NoErr
        /\ decOut.results = <<>>
        /\ decOut.err = ErrDuplicate <=>
              \A j \in 1..(FirstDuplicate - 1) : SeriesClean(j)

C6_Witness ==
    /\ Returned /\ HasDuplicate /\ decOut.err = ErrDuplicate
    /\ decIn.resp[1].Target # decIn.resp[2].Target

\* C8: a response of k >= 1 series whose tag sets are valid and pairwise
\* distinct and whose datapoints are well formed decodes to exactly k Elements,
\* the j-th with the TagSet and the Series of the j-th series
C8_OneElementPerSeriesInOrder ==
    (Returned /\ TagsClean /\ \A j \in 1..Len(decIn.resp) : AllWellFormed(j)) =>
        /\ decOut.err = NoErr
        /\ Len(decOut.results) = Len(decIn.resp)
        /\ \A j \in 1..Len(decIn.resp) :
            /\ TagEqual(decOut.results[j].Group, TagsOf(j))
            /\ decOut.results[j].Value = SeriesOfPoints(decIn.resp[j].Datapoints)

C8_Witness ==
    /\ Returned /\ decOut.err = NoErr /\ Len(decOut.results) = 2
    /\ decOut.results[1].Group # decOut.results[2].Group
    /\ decOut.results[1].Value # decOut.results[2].Value

\* C9: a two-token datapoint with no value is dropped whatever its timestamp
\* token, the other datapoints of the series make up the Series; a datapoint
\* that has not two tokens, or has a value that is no float, or has a value and
\* a timestamp that is no integer, makes the decode fail
C9_NoValueDroppedMalformedFails ==
    Returned =>
        /\ (\E j \in 1..Len(decIn.resp) : ~AllWellFormed(j) /\ TagsClean) =>
              (decOut.err \in {ErrFields, ErrFloat, ErrInt}
                  /\ decOut.results = <<>>)
        /\ (TagsClean /\ \A j \in 1..Len(decIn.resp) : AllWellFormed(j)) =>
              decOut.err = NoErr
        /\ decOut.err = NoErr =>
              \A j \in 1..Len(decIn.resp) :
                  LET dps == decIn.resp[j].Datapoints
                      series == decOut.results[j].Value
                  IN  /\ AllWellFormed(j)
                      /\ DOMAIN series = {Int64(dps[n][2]) : n \in LivePoints(dps)}
                      /\ \A n \in LivePoints(dps) :
                            (\A m \in LivePoints(dps) :
                                Int64(dps[m][2]) = Int64(dps[n][2]) => m <= n)
                            => series[Int64(dps[n][2])] = Float64(dps[n][1])

C9_Witness ==
    /\ Returned /\ decOut.err = NoErr
    /\ \E j \in 1..Len(decIn.resp) :
          /\ Len(decIn.resp[j].Datapoints) = 2
          /\ decIn.resp[j].Datapoints[1] = <<"", "x">>
          /\ DOMAIN decOut.results[j].Value = {2}

\* C10: with the format "" every series is decoded in single-key mode: the
\* TagSet of its Element is {"key": <full series name>}, and no series fails
\* for having too few segments
C10_EmptyFormatIsSingleKey ==
    (Returned /\ decIn.format = <<>>) =>
        /\ decOut.err # ErrMismatch
        /\ decOut.err = NoErr =>
              /\ Len(decOut.results) = Len(decIn.resp)
              /\ \A j \in 1..Len(decIn.resp) :
                    /\ DOMAIN decOut.results[j].Group = {KeyTag}
                    /\ decOut.results[j].Group[KeyTag] = decIn.resp[j].Target

C10_Witness ==
    /\ Returned /\ decIn.format = <<>> /\ decOut.err = NoErr
    /\ Len(decOut.results) = 2
    /\ decOut.results[1].Group[KeyTag] = <<"a", ".", "b">>

-----------------------------------------------------------------------------
(* Properties of the calls that rest on the decoder *)

\* C7: an empty RawResponse is the "empty response" decode error, never an
\* empty sequence of Elements: the Band or Query call whose window the backend
\* answered with an empty response is over, with that failure and no ResultSet
C7_EmptyResponseFails ==
    (lastAnswer.err = NoErr /\ lastAnswer.n = 0) =>
        /\ pc = "done"
        /\ err = ErrEmpty
        /\ ret.nilrs /\ ret.Elements = <<>> /\ ret.err = ErrEmpty

C7_Witness ==
    /\ op = "Band" /\ i >= 1
    /\ lastAnswer.err = NoErr /\ lastAnswer.n = 0 /\ ret.err = ErrEmpty

-----------------------------------------------------------------------------
(* Properties of the positional tag sets *)

Nodes(j) == Split(decIn.resp[j].Target)

\* the positions of the format that name a tag
NamedPositions == {k \in 1..Len(DecFormat) : DecFormat[k] # <<>>}

\* the decode fails with the name/format mismatch exactly for names with fewer
\* segments than the format (looked at on the first series, which no earlier
\* error hides), and a decode without error has met no such name
MismatchIffTooShort ==
    /\ decOut.err = ErrMismatch =>
          \E j \in 1..Len(decIn.resp) : Len(Nodes(j)) < Len(DecFormat)
    /\ (Len(decIn.resp) >= 1 /\ Len(Nodes(1)) < Len(DecFormat)) =>
          decOut.err = ErrMismatch
    /\ decOut.err = NoErr =>
          \A j \in 1..Len(decIn.resp) : Len(Nodes(j)) >= Len(DecFormat)

\* C11 as claimed: outside single-key mode the decode fails for a name/format
\* mismatch iff a name has fewer segments than the format; otherwise the TagSet
\* has one entry per non-empty format segment, mapped to the name segment at
\* the same position, and nothing else
C11_OneTagPerNamedPosition ==
    (Returned /\ ~SingleKey(DecFormat)) =>
        /\ MismatchIffTooShort
        /\ decOut.err = NoErr =>
              \A j \in 1..Len(decIn.resp) :
                  /\ DOMAIN decOut.results[j].Group =
                        {DecFormat[k] : k \in NamedPositions}
                  /\ \A k \in NamedPositions :
                        decOut.results[j].Group[DecFormat[k]] = Nodes(j)[k]

\* C11 as amended: as claimed, but with one entry per distinct non-empty
\* format segment, mapped to the name segment at the last position of the
\* format that carries that segment name
C11_OneTagPerNameLastPosition ==
    (Returned /\ ~SingleKey(DecFormat)) =>
        /\ MismatchIffTooShort
        /\ decOut.err = NoErr =>
              \A j \in 1..Len(decIn.resp) :
                  /\ DOMAIN decOut.results[j].Group =
                        {DecFormat[k] : k \in NamedPositions}
                  /\ \A k \in NamedPositions :
                        (\A m \in NamedPositions :
                            DecFormat[m] = DecFormat[k] => m <= k)
                        => decOut.results[j].Group[DecFormat[k]] = Nodes(j)[k]

\* format "h.." and name "b.a.c" give {"h": "b"}
C11_Witness ==
    /\ Returned /\ decOut.err = NoErr
    /\ decIn.format = <<"h", ".", ".">>
    /\ Len(decIn.resp) = 1
    /\ decIn.resp[1].Target = <<"b", ".", "a", ".", "c">>
    /\ decOut.results[1].Group = SetTag(EmptyTags, <<"h">>, <<"b">>)

-----------------------------------------------------------------------------
(* Properties of timeRequest *)

\* the windows the current call has attempted: the decoded ones, and the one
\* that failed
Attempted ==
    IF op = "Band"
    THEN i + (IF pc = "done" /\ lastAnswer.err # "none" /\ err # NoErr
              THEN 1 ELSE 0)
    ELSE IF op = "Query" /\ lastAnswer.err # "none" THEN 1 ELSE 0

\* every record of the audit list has its one invocation of get-or-compute,
\* made with the record's cache key, and the call has one record per window
\* it attempted, the failed one included
OneGetPerRecord ==
    /\ Len(cacheGets) = Len(GraphiteQueries)
    /\ Len(GraphiteQueries) > audit0 =>
          cacheGets[Len(cacheGets)] =
              CacheKey(GraphiteQueries[Len(GraphiteQueries)])
    /\ Len(GraphiteQueries) = audit0 + Attempted
    /\ lastAnswer.err = ErrTransport =>
          (pc = "done" /\ ret.nilrs /\ ret.err = ErrTransport)

\* a step removes no record of the audit list and adds at most one, with
\* its one invocation of get-or-compute
AppendOnly ==
    /\ Len(GraphiteQueries') \in {Len(GraphiteQueries), Len(GraphiteQueries) + 1}
    /\ \A k \in 1..Len(GraphiteQueries) :
          GraphiteQueries'[k].Start = GraphiteQueries[k].Start
    /\ Len(cacheGets') = Len(GraphiteQueries')
    /\ SubSeq(cacheGets', 1, Len(cacheGets)) = cacheGets

\* C12: every attempted window appends one Request to the audit list and
\* invokes get-or-compute once, with that Request's cache key, whether the
\* delegation succeeds or fails; the audit list only grows; a failure of
\* get-or-compute ends the call without another invocation; n attempted
\* windows grow the list by n
C12_RecordThenDelegateOnce == []OneGetPerRecord /\ [][AppendOnly]_vars

C12_Witness ==
    /\ op = "Band" /\ pc = "done" /\ lastAnswer.err = ErrTransport
    /\ i = 1 /\ audit0 = 1 /\ Len(GraphiteQueries) = 3 /\ Len(cacheGets) = 3

-----------------------------------------------------------------------------
(* Properties of Query *)

\* the call was made with duration strings that parse (for Query the second
\* one may be empty)
ValidDurations(first, second, mayBeEmpty) ==
    /\ ParseDurationOk(first)
    /\ ParseDurationOk(second) \/ (mayBeEmpty /\ second = "")

\* the window a Query call with these duration strings asks for
QuerySpan(sduration, eduration) ==
    [Start |-> eNow - ParseDuration(sduration),
     End |-> IF eduration = "" THEN eNow ELSE eNow - ParseDuration(eduration)]

\* a Query step with valid durations records and requests its one window, and
\* if it succeeds returns what the decoder gives for the answer, as it is
QueryStep(sduration, eduration, format, answer) ==
    (Query(sduration, eduration, format, answer)
        /\ ValidDurations(sduration, eduration, TRUE)) =>
        /\ Len(GraphiteQueries') = Len(GraphiteQueries) + 1
        /\ cacheGets' =
              Append(cacheGets, CacheKey(QuerySpan(sduration, eduration)))
        /\ GraphiteQueries'[Len(GraphiteQueries')].Start =
              QuerySpan(sduration, eduration).Start
        /\ GraphiteQueries'[Len(GraphiteQueries')].End =
              QuerySpan(sduration, eduration).End
        /\ ret'.err = NoErr =>
              LET parsed == parseGraphiteResponse(answer.resp, Split(format))
              IN  /\ answer.err = NoErr /\ parsed.err = NoErr
                  /\ ~ret'.nilrs
                  /\ ret'.Elements = parsed.results
                  /\ Len(ret'.Elements) = Len(answer.resp)

\* C13: a Query call with valid durations issues exactly one Request, spanning
\* [now - lookback, now - end-offset] with an empty end-offset meaning end =
\* now, and on success returns the decoded Elements of that window unchanged,
\* in decode order, unmerged
C13_QueryOneWindowUnmerged ==
    [][\A se \in QueryDurations, f \in CallFormats, a \in Answers :
          QueryStep(se[1], se[2], f, a)]_vars

C13_Witness ==
    /\ op = "Query" /\ pc = "done" /\ ret.err = NoErr
    /\ durArgs = <<"1h", "">>
    /\ req = [Start |-> eNow - 1, End |-> eNow]
    /\ Len(GraphiteQueries) = audit0 + 1
    /\ Len(ret.Elements) = 2

-----------------------------------------------------------------------------
(* Properties of the failures *)

\* the call has ended on a failure of get-or-compute
TransportFailed == pc = "done" /\ lastAnswer.err = ErrTransport

\* C14: a failure of get-or-compute is returned by Band and by Query as that
\* error wrapped with the name of the operation: Band's names Band, Query's
\* names Query
C14_TransportErrorWrapped ==
    TransportFailed =>
        /\ ret.nilrs /\ ret.err = ErrTransport
        /\ op = "Band" => ret.wrap = "graphiteBand"
        /\ op = "Query" => ret.wrap # ""

\* the instants of the records of the audit list, in order
Instants(queries) ==
    [k \in 1..Len(queries) |-> <<queries[k].Start, queries[k].End>>]

\* the running or finished call was made with a duration string that does not
\* parse
BadDurations(o, args) ==
    /\ o \in {"Band", "Query"}
    /\ ~ValidDurations(args[1], args[2], o = "Query")

\* a call made with a bad duration string has ended at once, with an error and
\* no ResultSet, and has neither recorded nor requested anything
RejectedAtOnce ==
    BadDurations(op, durArgs) =>
        /\ pc = "done"
        /\ ret.nilrs /\ ret.err # NoErr /\ ret.err = ErrDuration
        /\ Len(GraphiteQueries) = audit0 /\ Len(cacheGets) = audit0
        /\ lastAnswer = NoAnswer
        /\ r = <<>>

\* the step that makes such a call leaves the audit list and the invocations
\* of get-or-compute as they were
NoWorkDone ==
    BadDurations(op', durArgs') =>
        /\ Instants(GraphiteQueries') = Instants(GraphiteQueries)
        /\ cacheGets' = cacheGets

\* C15: a Band call with an unparsable lookback or period string, and a Query
\* call with an unparsable lookback or an unparsable non-empty end-offset,
\* fails at once: the audit list is unchanged, get-or-compute is not invoked,
\* no ResultSet is returned
C15_BadDurationNoWork == []RejectedAtOnce /\ [][NoWorkDone]_vars

C15_Witness ==
    /\ op = "Band" /\ pc = "done" /\ durArgs = <<"1h", "bad">>
    /\ audit0 = 1 /\ Len(GraphiteQueries) = 1 /\ Len(cacheGets) = 1
    /\ ret.nilrs /\ ret.err = ErrDuration

-----------------------------------------------------------------------------
(* Properties of the audit list *)

\* C16: during and after a Band call the k-th Request the call appended to the
\* audit list carries the start and end instants of the k-th window as they
\* were when the window was issued
C16_AuditKeepsInstants ==
    op = "Band" =>
        \A k \in 1..Len(Issued) :
            /\ GraphiteQueries[audit0 + k].Start = Issued[k].Start
            /\ GraphiteQueries[audit0 + k].End = Issued[k].End

-----------------------------------------------------------------------------
(* Properties of graphiteTagQuery *)

\* C17: for every format, the tag keys graphiteTagQuery declares hold the keys
\* of every TagSet the decoder gives under that format, the format "" of the
\* single-key mode included
C17_DeclaredKeysCoverTags ==
    (Returned /\ decOut.err = NoErr) =>
        \A j \in 1..Len(decOut.results) :
            DOMAIN decOut.results[j].Group \subseteq decOut.keys

-----------------------------------------------------------------------------
(* Properties of the merge *)

\* the TagSet g occurs among the elements
Occurs(g, elements) ==
    \E k \in 1..Len(elements) : TagEqual(elements[k].Group, g)

\* the elements whose TagSet does not occur among `seen`, in their order
Unseen(elements, seen) ==
    LET New(e) == ~Occurs(e.Group, seen) IN SelectSeq(elements, New)

\* what merging the decode `results` of a window after window 0 does to the
\* accumulated elements `before`, giving `after`
MergeFrame(before, results, after) ==
    /\ Len(after) >= Len(before)
    /\ \A k \in 1..Len(before) :
          /\ TagEqual(after[k].Group, before[k].Group)
          /\ DOMAIN before[k].Value \subseteq DOMAIN after[k].Value
          /\ ~Occurs(before[k].Group, results) =>
                after[k].Value = before[k].Value
    /\ SubSeq(after, Len(before) + 1, Len(after)) = Unseen(results, before)

\* a step of Band that decodes window i without error: for i = 0 the decode
\* becomes the accumulated elements, for i > 0 it is merged into them
MergeStep(answer) ==
    (BandWindow(answer) /\ err' = NoErr) =>
        LET results == parseGraphiteResponse(answer.resp,
                                             Split(formatArg)).results
        IN  /\ i' = i + 1
            /\ i = 0 => r' = results
            /\ i > 0 => MergeFrame(r, results, r')
            /\ pc' = "done" => ret'.Elements = r'

\* C18: merging window i > 0 keeps every accumulated Element at its position
\* with its TagSet, leaves unchanged the Series of the Elements whose TagSet is
\* not in the window's decode, removes no timestamp, and appends the Elements
\* of unseen TagSets at the end in the order of the window's response; window
\* 0's Elements become the initial contents in decode order
C18_MergeFrame == [][\A a \in Answers : MergeStep(a)]_vars

C18_Witness ==
    /\ op = "Band" /\ i = 2 /\ err = NoErr /\ formatArg = <<>>
    /\ lastAnswer.n = 1 /\ Len(r) = 2
    /\ r[1].Group[KeyTag] = TargetAC /\ DOMAIN r[1].Value = {2}
    /\ r[2].Group[KeyTag] = TargetAB /\ DOMAIN r[2].Value = {1, 2}

\* the sequences that hold the members of s in another order
Reorderings(s) ==
    {[k \in 1..Len(s) |-> s[f[k]]] : f \in Permutations(1..Len(s))}

\* the mapping from TagSet to Series the elements stand for
Mapping(elements) ==
    {<<elements[k].Group, elements[k].Value>> : k \in 1..Len(elements)}

\* a step of Band that decodes window i without error gives the same mapping
\* as the step of a run that has accumulated the same mapping so far, in
\* whatever order, and is answered with the same series in whatever order
OrderFreeStep(answer) ==
    (BandWindow(answer) /\ err' = NoErr) =>
        \A response \in Reorderings(answer.resp), elements \in Reorderings(r) :
            LET parsed == parseGraphiteResponse(response, Split(formatArg))
            IN  /\ parsed.err = NoErr
                /\ Mapping(Accumulate(elements, parsed.results, i)) =
                       Mapping(r')

\* C19: the mapping from TagSet to Series a Band call gives does not depend on
\* the order in which the response of each window lists its series: two runs
\* over the same windows whose responses differ by a reordering of the series
\* inside each response agree on it window after window (the positions of the
\* Elements may differ)
C19_MergeOrderFree == [][\A a \in Answers : OrderFreeStep(a)]_vars

C19_Witness ==
    /\ BandSucceeded /\ i = 2 /\ formatArg = <<>>
    /\ lastAnswer.n = 2 /\ Len(ret.Elements) = 2 /\ redecoded
    /\ ret.Elements[1].Group[KeyTag] = TargetAB
    /\ ret.Elements[2].Group[KeyTag] = TargetAC

-----------------------------------------------------------------------------
(* Properties of the ResultSet *)

\* no two of the elements have the same TagSet, and every TagSet is valid
DistinctValid(elements) ==
    /\ \A j, k \in 1..Len(elements) :
          j # k => ~TagEqual(elements[j].Group, elements[k].Group)
    /\ \A k \in 1..Len(elements) : Valid(elements[k].Group)

\* C20: the TagSets of the Elements a Band call has accumulated after window
\* 0, and of the ResultSet of every successful Band or Query call, are
\* pairwise distinct and valid
C20_TagSetsDistinctValid ==
    /\ (op = "Band" /\ i >= 1) => DistinctValid(r)
    /\ (op \in {"Band", "Query"} /\ pc = "done" /\ ret.err = NoErr) =>
          (~ret.nilrs /\ DistinctValid(ret.Elements))

C20_Witness ==
    /\ BandSucceeded /\ i = 3 /\ formatArg = <<>> /\ Len(ret.Elements) = 2
    /\ ret.Elements[1].Group[KeyTag] = TargetAC
    /\ DOMAIN ret.Elements[1].Value = {2}
    /\ DOMAIN ret.Elements[2].Value = {1, 2}

====
